---- MODULE Spec2Model ----
(***************************************************************************)
(* Model of the vocabulary-training Telegram bot (main.py, setup_db.py):   *)
(* the card selector create_card, the per-user temporary state kept in     *)
(* state_storage, the persisted tables and the message handlers in the     *)
(* order in which the dispatcher tries them.                               *)
(*                                                                         *)
(* Strings are ASCII transliterations of the Russian texts of the source   *)
(* ("Obnovit" for the text of line 193 of main.py, "Uroven 1" for a level  *)
(* button, ...).  str.lower() is the table Lower; it is not the identity   *)
(* on the texts a user can send.                                           *)
(***************************************************************************)
EXTENDS Integers, Sequences, FiniteSets, Bags, TLC

VARIABLES
    users,        \* table users: the chat ids that have a User row
    user_states,  \* table user_states: chat id -> [level, category]
    user_words,   \* table user_words: a bag of rows
    words,        \* table words (the canonical set): a bag of rows
    users_state,  \* State.users_state: chat id -> temporary state (a dict)
    last,         \* the last message handled and what the bot sent back
    shown,        \* per chat: the cards rendered last (at most RecentLimit)
    turns,        \* number of messages still to be handled
    dicts,        \* the dict objects of the process, by identity
    lists,        \* the list objects of the process, by identity
    storage,      \* State.users_state as references: chat id -> dict (0: no key)
    workers,      \* the worker threads: position and local variables
    jobs,         \* the messages the worker threads have taken, in order
    start         \* the temporary states and user_words the threads started from

threadvars == <<dicts, lists, storage, workers, jobs, start>>

vars == <<users, user_states, user_words, words, users_state, last, shown, turns,
          threadvars>>

-----------------------------------------------------------------------------
(* Bounds of the model *)

MaxTurns == 7        \* messages handled in one behaviour of the bot
MaxCardTurns == 3    \* messages handled in one behaviour of the card selector
MaxEditTurns == 6    \* messages handled in one behaviour of the add and delete flows

-----------------------------------------------------------------------------
(* Program constants *)

RecentLimit == 3     \* len(recent_words) > 3
OptionLimit == 4     \* len(unique_options) < 4
ExtraCopies == 2     \* weighted_words.extend([word] * 2)

NoLevel == -1        \* a NULL level column / a missing "level" key
NoText == "<none>"   \* a NULL string column / a missing dict key

Chats == {1, 2}

-----------------------------------------------------------------------------
(* Texts *)

ADD_WORD == "Dobavit slovo +"
NEXT == "Dalshe >>"
DELETE_WORD == "Udalit slovo -"
START == "/start"
UPDATE == "Obnovit"
STATISTICS == "Statistika"
HELP == "Spravka"
CATEGORY_MENU == "Vybrat kategoriyu"
LEVEL_MENU == "Vybrat uroven"

\* str.lower() on the texts of the model that are not lowercase already
LowerTable ==
    ("Cat" :> "cat") @@ ("Dog" :> "dog") @@ ("Kot" :> "kot") @@
    ("Animals" :> "animals") @@ ("Colors" :> "colors") @@
    (ADD_WORD :> "dobavit slovo +") @@ (NEXT :> "dalshe >>") @@
    (DELETE_WORD :> "udalit slovo -") @@ (UPDATE :> "obnovit") @@
    (STATISTICS :> "statistika") @@ (HELP :> "spravka") @@
    (CATEGORY_MENU :> "vybrat kategoriyu") @@ (LEVEL_MENU :> "vybrat uroven") @@
    ("Uroven 0" :> "uroven 0") @@ ("Uroven 1" :> "uroven 1") @@
    ("Uroven 2" :> "uroven 2")

Lower(t) == IF t \in DOMAIN LowerTable THEN LowerTable[t] ELSE t

\* str.strip() on the texts of the model that carry outer blanks
StripTable == (" animals " :> "animals")

Strip(t) == IF t \in DOMAIN StripTable THEN StripTable[t] ELSE t

\* message.text.startswith("Уровень") and int(message.text.split()[-1])
LevelTable == ("Uroven 0" :> 0) @@ ("Uroven 1" :> 1) @@ ("Uroven 2" :> 2)

StartsWithLevel(t) == t \in DOMAIN LevelTable

LevelOf(t) == LevelTable[t]

\* Python truth of an Optional[int] and of an Optional[str]
TruthyLevel(l) == l # NoLevel /\ l # 0

\* TruthyText that takes None for a text
TruthyText_of_none(s) == s # ""

TruthyText(s) == s # NoText /\ s # ""

-----------------------------------------------------------------------------
(* Bags of rows *)

RangeOf(s) == {s[i] : i \in DOMAIN s}

BagFilter(B, P(_)) == [r \in {x \in BagToSet(B) : P(x)} |-> CopiesIn(r, B)]

IsEmptyBag(B) == BagToSet(B) = {}

One(r) == SetToBag({r})

UserWord(u, w, t, c, l, custom) ==
    [user_id |-> u, word |-> w, translation |-> t, category |-> c,
     level |-> l, is_custom |-> custom]

Word(w, t, c, l) == [word |-> w, translation |-> t, category |-> c, level |-> l]

-----------------------------------------------------------------------------
(* Temporary state: the dict State.users_state[chat_id]; a missing key is   *)
(* the value .get() gives for it, a missing dict is EmptyState.             *)

EmptyState ==
    [recent_words |-> <<>>, wrong_answers |-> <<>>, target_word |-> NoText,
     translate_word |-> NoText, action |-> NoText, category |-> NoText,
     level |-> NoLevel, russian |-> NoText]

NoState == [level |-> NoLevel, category |-> NoText]

NoCard ==
    [word |-> NoText, translate |-> NoText, options |-> EmptyBag, words |-> EmptyBag,
     recent |-> <<>>, wrong |-> <<>>, pool |-> EmptyBag]

-----------------------------------------------------------------------------
(* Queries *)

\* get_all_words: the user's rows of the category at the persisted level
get_all_words(uw, st, chat_id, category) ==
    BagFilter(uw, LAMBDA r : /\ r.user_id = chat_id
                             /\ r.category = category
                             /\ r.level = st[chat_id].level)

\* get_categories_for_level: categories of words and of everybody's user_words
get_categories_for_level(level) ==
    {Lower(r.category) : r \in {x \in BagToSet(words) : x.level = level}}
    \cup {Lower(r.category) : r \in {x \in BagToSet(user_words) : x.level = level}}

\* is_valid_category, for a chat that has a User row
is_valid_category(chat_id, text) ==
    LET state == user_states[chat_id]
        category == Lower(Strip(text))
    IN  /\ TruthyLevel(state.level)
        /\ \/ \E r \in BagToSet(words) :
                 r.category = category /\ r.level = state.level
           \/ \E r \in BagToSet(user_words) :
                 /\ r.user_id = chat_id
                 /\ r.category = category
                 /\ r.level = state.level

-----------------------------------------------------------------------------
(* create_card *)

\* available_words with the filter on the recent words left out
available_words_unfiltered(ws, recent_words) == ws

\* lines 489-494: the candidates whose word is not among the recent ones,
\* or all of them when none is left
available_words(ws, recent_words) ==
    LET filtered == BagFilter(ws, LAMBDA r : Lower(r.word) \notin RangeOf(recent_words))
    IN  IF IsEmptyBag(filtered) THEN ws ELSE filtered

\* ExtraWords with [word] in place of [word] * 2
ExtraWords_single(avail, wrong_answers) ==
    BagFilter(avail, LAMBDA r : Lower(r.word) \in RangeOf(wrong_answers))

\* [word] * 2 for every available word with a wrong answer (line 502)
ExtraWords(avail, wrong_answers) ==
    LET wrong == BagFilter(avail, LAMBDA r : Lower(r.word) \in RangeOf(wrong_answers))
    IN  [r \in BagToSet(wrong) |-> ExtraCopies * CopiesIn(r, wrong)]

\* lines 497-505
weighted_words(avail, wrong_answers) ==
    LET weighted == avail (+) ExtraWords(avail, wrong_answers)
    IN  IF IsEmptyBag(weighted) THEN avail ELSE weighted

\* PushRecent with pop() in place of pop(0)
PushRecent_pop_last(recent_words, w) ==
    LET appended == Append(recent_words, w)
    IN  IF Len(appended) > 3 THEN SubSeq(appended, 1, Len(appended) - 1)
        ELSE appended

\* PushRecent with insert(0, w) in place of append(w)
PushRecent_prepend(recent_words, w) ==
    LET prepended == <<w>> \o recent_words
    IN  IF Len(prepended) > 3 THEN Tail(prepended) ELSE prepended

\* lines 513-516: the queue of recent words
PushRecent(recent_words, w) ==
    LET appended == Append(recent_words, w)
    IN  IF Len(appended) > RecentLimit THEN Tail(appended) ELSE appended

\* OtherOptions with == in place of != in the comprehension
OtherOptions_equal(ws, target_word) ==
    LET others == BagFilter(ws, LAMBDA r : Lower(r.word) = Lower(target_word))
    IN  BagOfAll(LAMBDA r : r.word, others)

\* line 524: the words of the other candidates
OtherOptions(ws, target_word) ==
    LET others == BagFilter(ws, LAMBDA r : Lower(r.word) # Lower(target_word))
    IN  BagOfAll(LAMBDA r : r.word, others)

\* lines 525-529: options are popped in shuffled order until four unique
\* words are collected; the result is every set the loop can end with
RECURSIVE PopOptions(_, _)
PopOptions(unique_options, options) ==
    IF Cardinality(unique_options) < OptionLimit /\ ~IsEmptyBag(options)
    THEN UNION {PopOptions(unique_options \cup {Lower(o)}, options (-) One(o)) :
                    o \in BagToSet(options)}
    ELSE {unique_options}

\* create_card on a non-empty list: every (temporary state, card) it can yield
Cards(ts, ws) ==
    LET avail == available_words(ws, ts.recent_words)
        pool == weighted_words(avail, ts.wrong_answers)
        Made(w, opts) ==
            [ts |-> [ts EXCEPT !.recent_words = PushRecent(@, Lower(w.word)),
                               !.target_word = Lower(w.word),
                               !.translate_word = Lower(w.translation)],
             card |-> [word |-> w.word, translate |-> w.translation,
                       options |-> SetToBag(opts), words |-> ws,
                       recent |-> ts.recent_words, wrong |-> ts.wrong_answers,
                       pool |-> pool],
             msgs |-> <<"card">>]
    IN  UNION {{Made(w, opts) :
                   opts \in PopOptions({Lower(w.word)}, OtherOptions(ws, w.word))} :
               w \in BagToSet(pool)}

\* create_card that starts the card from an empty list of wrong answers
create_card_resetting(ts, ws) ==
    IF IsEmptyBag(ws)
    THEN {[ts |-> ts, card |-> NoCard, msgs |-> <<"no_words_available">>]}
    ELSE {[c EXCEPT !.ts.wrong_answers = <<>>] : c \in Cards(ts, ws)}

\* create_card: lines 475-477 for an empty list, else a card
create_card(ts, ws) ==
    IF IsEmptyBag(ws)
    THEN {[ts |-> ts, card |-> NoCard, msgs |-> <<"no_words_available">>]}
    ELSE Cards(ts, ws)

-----------------------------------------------------------------------------
(* load_standard_words_for_user (setup_db.py).  The session does not        *)
(* autoflush, so the rows added earlier in the loop are not seen by the     *)
(* query of a later iteration.                                              *)

Lowered(u, w) ==
    UserWord(u, Lower(w.word), Lower(w.translation), Lower(w.category), w.level, FALSE)

\* load_standard_words_for_user without the lookup of the existing row
load_standard_words_unchecked(uw, u) ==
    uw (+) BagOfAll(LAMBDA w : Lowered(u, w), words)

\* load_standard_words_for_user that replaces the rows of the user
load_standard_words_replacing(uw, u) ==
    BagFilter(uw, LAMBDA r : r.user_id # u) (+) BagOfAll(LAMBDA w : Lowered(u, w), words)

load_standard_words_for_user(uw, u) ==
    LET missing == BagFilter(words, LAMBDA w : ~BagIn(Lowered(u, w), uw))
    IN  uw (+) BagOfAll(LAMBDA w : Lowered(u, w), missing)

-----------------------------------------------------------------------------
(* The dispatcher: the first handler whose filter accepts the message.      *)
(* The filter is_valid_category reads user.id and raises for a chat with    *)
(* no User row, which ends the handling of the message.                     *)

Route(chat_id, text) ==
    IF text = START THEN "start"
    ELSE IF text = UPDATE THEN "update_words"
    ELSE IF text = STATISTICS THEN "show_statistics"
    ELSE IF text = HELP THEN "show_help"
    ELSE IF StartsWithLevel(text) THEN "select_level"
    ELSE IF chat_id \notin users THEN "filter_raises"
    ELSE IF is_valid_category(chat_id, text) THEN "select_category"
    ELSE IF text = NEXT THEN "next_card"
    ELSE IF text = ADD_WORD THEN "add_word"
    ELSE IF text = DELETE_WORD THEN "delete_word"
    ELSE "handle_text"

\* The texts a chat sends in the model
Texts ==
    {START, UPDATE, STATISTICS, HELP, "Uroven 0", "Uroven 1", "Uroven 2",
     "Animals", " animals ", NEXT, ADD_WORD, DELETE_WORD, CATEGORY_MENU, LEVEL_MENU,
     "Cat", "dog", "kot"}

PushShown(s, e) ==
    LET appended == Append(s, e)
    IN  IF Len(appended) > RecentLimit THEN Tail(appended) ELSE appended

\* What every handled message leaves behind: the reply and the card history
Reply(chat_id, text, handler, msgs, card) ==
    /\ turns > 0
    /\ turns' = turns - 1
    /\ last' = [chat_id |-> chat_id, text |-> text, handler |-> handler,
                msgs |-> msgs, card |-> card]
    /\ shown' = IF card = NoCard THEN shown
                ELSE [shown EXCEPT ![chat_id] =
                        PushShown(@, [word |-> Lower(card.word), words |-> card.words])]
    /\ UNCHANGED threadvars

-----------------------------------------------------------------------------
(* Handlers *)

\* start: lines 125-156
Start(chat_id, text) ==
    /\ Route(chat_id, text) = "start"
    /\ IF chat_id \notin users
       THEN /\ users' = users \cup {chat_id}
            /\ user_states' = [user_states EXCEPT ![chat_id] = NoState]
            /\ user_words' = load_standard_words_for_user(user_words, chat_id)
       ELSE UNCHANGED <<users, user_states, user_words>>
    /\ Reply(chat_id, text, "start", <<"greeting", "main_menu">>, NoCard)
    /\ UNCHANGED <<words, users_state>>

\* update_words: lines 193-210
UpdateWords(chat_id, text) ==
    /\ Route(chat_id, text) = "update_words"
    /\ IF chat_id \notin users
       THEN /\ UNCHANGED user_words
            /\ Reply(chat_id, text, "update_words", <<"user_not_found">>, NoCard)
       ELSE /\ user_words' = load_standard_words_for_user(user_words, chat_id)
            /\ Reply(chat_id, text, "update_words", <<"db_updated">>, NoCard)
    /\ UNCHANGED <<users, user_states, words, users_state>>

\* show_statistics: lines 213-269
ShowStatistics(chat_id, text) ==
    /\ Route(chat_id, text) = "show_statistics"
    /\ Reply(chat_id, text, "show_statistics",
             IF chat_id \notin users THEN <<"user_not_found">>
             ELSE IF \E r \in BagToSet(user_words) : r.user_id = chat_id
                  THEN <<"statistics">> ELSE <<"no_words_yet">>,
             NoCard)
    /\ UNCHANGED <<users, user_states, user_words, words, users_state>>

\* show_help: lines 272-320
ShowHelp(chat_id, text) ==
    /\ Route(chat_id, text) = "show_help"
    /\ Reply(chat_id, text, "show_help", <<"help">>, NoCard)
    /\ UNCHANGED <<users, user_states, user_words, words, users_state>>

\* select_level: lines 323-367
SelectLevel(chat_id, text) ==
    /\ Route(chat_id, text) = "select_level"
    /\ IF chat_id \notin users
       THEN /\ UNCHANGED user_states
            /\ Reply(chat_id, text, "select_level", <<"user_not_found">>, NoCard)
       ELSE LET level == LevelOf(text)
            IN  /\ user_states' = [user_states EXCEPT ![chat_id].level = level]
                /\ Reply(chat_id, text, "select_level",
                         IF get_categories_for_level(level) = {}
                         THEN <<"level_loaded", "no_categories">>
                         ELSE <<"level_loaded", "choose_category">>,
                         NoCard)
    /\ UNCHANGED <<users, user_words, words, users_state>>

\* a message that reaches the filter is_valid_category from a chat with no
\* User row: line 415 raises, nothing is handled
FilterRaises(chat_id, text) ==
    /\ Route(chat_id, text) = "filter_raises"
    /\ Reply(chat_id, text, "filter_raises", <<>>, NoCard)
    /\ UNCHANGED <<users, user_states, user_words, words, users_state>>

\* select_category: lines 436-463
SelectCategory(chat_id, text) ==
    /\ Route(chat_id, text) = "select_category"
    /\ LET category == Lower(Strip(text))
           states == [user_states EXCEPT ![chat_id].category = category]
           ws == get_all_words(user_words, states, chat_id, category)
       IN  /\ user_states' = states
           /\ IF IsEmptyBag(ws)
              THEN /\ UNCHANGED users_state
                   /\ Reply(chat_id, text, "select_category", <<"category_empty">>, NoCard)
              ELSE \E c \in create_card(users_state[chat_id], ws) :
                       /\ users_state' = [users_state EXCEPT ![chat_id] = c.ts]
                       /\ Reply(chat_id, text, "select_category", c.msgs, c.card)
    /\ UNCHANGED <<users, user_words, words>>

\* next_card: lines 554-572
NextCard(chat_id, text) ==
    /\ Route(chat_id, text) = "next_card"
    /\ LET state == user_states[chat_id]
       IN  IF ~TruthyText(state.category)
           THEN /\ UNCHANGED users_state
                /\ Reply(chat_id, text, "next_card", <<>>, NoCard)
           ELSE \E c \in create_card(users_state[chat_id],
                                     get_all_words(user_words, user_states, chat_id,
                                                   state.category)) :
                    /\ users_state' = [users_state EXCEPT ![chat_id] = c.ts]
                    /\ Reply(chat_id, text, "next_card", c.msgs, c.card)
    /\ UNCHANGED <<users, user_states, user_words, words>>

\* add_word and delete_word: lines 575-622
StartAction(chat_id, text, handler, prompt) ==
    /\ Route(chat_id, text) = handler
    /\ LET state == user_states[chat_id]
       IN  IF ~TruthyText(state.category)
           THEN /\ UNCHANGED users_state
                /\ Reply(chat_id, text, handler, <<>>, NoCard)
           ELSE /\ users_state' = [users_state EXCEPT ![chat_id] =
                                      [@ EXCEPT !.action = handler,
                                                !.category = Lower(state.category),
                                                !.level = state.level]]
                /\ Reply(chat_id, text, handler, <<prompt>>, NoCard)
    /\ UNCHANGED <<users, user_states, user_words, words>>

AddWord(chat_id, text) == StartAction(chat_id, text, "add_word", "enter_russian")

DeleteWord(chat_id, text) ==
    StartAction(chat_id, text, "delete_word", "enter_russian_to_delete")

-----------------------------------------------------------------------------
(* handle_text: lines 762-786, with process_menu_navigation and the         *)
(* branches of process_word_actions, one action for each.                   *)

\* process_menu_navigation: lines 741-759 (select_category_menu, go_to_main_menu)
MenuNavigation(chat_id, text) ==
    /\ Route(chat_id, text) = "handle_text"
    /\ text \in {CATEGORY_MENU, LEVEL_MENU}
    /\ Reply(chat_id, text, "process_menu_navigation",
             IF text = CATEGORY_MENU /\ TruthyLevel(user_states[chat_id].level)
             THEN <<"choose_category">> ELSE <<"main_menu">>,
             NoCard)
    /\ UNCHANGED <<users, user_states, user_words, words, users_state>>

ReachesWordActions(chat_id, text) ==
    /\ Route(chat_id, text) = "handle_text"
    /\ text \notin {CATEGORY_MENU, LEVEL_MENU}

\* lines 638-642: the Russian word of the add flow
StageWord(chat_id, text) ==
    /\ ReachesWordActions(chat_id, text)
    /\ users_state[chat_id].action = "add_word"
    /\ users_state' = [users_state EXCEPT ![chat_id] =
                          [@ EXCEPT !.russian = Lower(text),
                                    !.action = "add_translation"]]
    /\ Reply(chat_id, text, "process_word_actions", <<"enter_translation">>, NoCard)
    /\ UNCHANGED <<users, user_states, user_words, words>>

\* existing_word with word and translation taken for each other
existing_word_swapped(uw, user_id, english, russian, category, level) ==
    {r \in BagToSet(uw) : /\ r.user_id = user_id
                          /\ r.word = Lower(russian)
                          /\ r.translation = Lower(english)
                          /\ r.category = Lower(category)
                          /\ r.level = level}

\* lines 655-661: the rows the lookup of the add commit matches
existing_word(uw, user_id, english, russian, category, level) ==
    {r \in BagToSet(uw) : /\ r.user_id = user_id
                          /\ r.word = Lower(english)
                          /\ r.translation = Lower(russian)
                          /\ r.category = Lower(category)
                          /\ r.level = level}

\* lines 644-690: the translation of the add flow
CommitAdd(chat_id, text) ==
    /\ ReachesWordActions(chat_id, text)
    /\ users_state[chat_id].action = "add_translation"
    /\ LET temp_state == users_state[chat_id]
           russian == temp_state.russian
           english == Lower(text)
           category == temp_state.category
           level == temp_state.level
           popped == [temp_state EXCEPT !.russian = NoText]
           new_word == UserWord(chat_id, Lower(english), Lower(russian),
                                Lower(category), level, FALSE)
           exists ==
               existing_word(user_words, chat_id, english, russian, category, level) # {}
           stored == IF exists THEN user_words ELSE user_words (+) One(new_word)
       IN  IF ~TruthyText(russian) \/ ~TruthyText(category) \/ ~TruthyLevel(level)
           THEN /\ users_state' = [users_state EXCEPT ![chat_id] = popped]
                /\ UNCHANGED user_words
                /\ Reply(chat_id, text, "process_word_actions",
                         <<"add_data_error">>, NoCard)
           ELSE /\ user_words' = stored
                /\ \E c \in create_card(popped,
                                        get_all_words(stored, user_states, chat_id,
                                                      category)) :
                       /\ users_state' = [users_state EXCEPT ![chat_id] = EmptyState]
                       /\ Reply(chat_id, text, "process_word_actions",
                                <<IF exists THEN "already_exists" ELSE "added">>
                                    \o c.msgs,
                                c.card)
    /\ UNCHANGED <<users, user_states, words>>

\* word_to_delete with the text looked up in the column word
word_to_delete_by_word(uw, user_id, text, category, level) ==
    {r \in BagToSet(uw) : /\ r.user_id = user_id
                          /\ r.word = Lower(text)
                          /\ r.category = Lower(category)
                          /\ r.level = level}

\* word_to_delete with no filter on category and level
word_to_delete_anywhere(uw, user_id, text, category, level) ==
    {r \in BagToSet(uw) : r.user_id = user_id /\ r.translation = Lower(text)}

\* lines 696-701: the rows the lookup of the delete commit matches; first()
\* returns one of them
word_to_delete(uw, user_id, text, category, level) ==
    {r \in BagToSet(uw) : /\ r.user_id = user_id
                          /\ r.translation = Lower(text)
                          /\ r.category = Lower(category)
                          /\ r.level = level}

\* lines 692-712: the word of the delete flow
CommitDelete(chat_id, text) ==
    /\ ReachesWordActions(chat_id, text)
    /\ users_state[chat_id].action = "delete_word"
    /\ LET temp_state == users_state[chat_id]
           category == temp_state.category
           level == temp_state.level
           found == word_to_delete(user_words, chat_id, text, category, level)
           Finish(stored, msg) ==
               /\ user_words' = stored
               /\ \E c \in create_card(temp_state,
                                       get_all_words(stored, user_states, chat_id,
                                                     category)) :
                      /\ users_state' = [users_state EXCEPT ![chat_id] = EmptyState]
                      /\ Reply(chat_id, text, "process_word_actions",
                               <<msg>> \o c.msgs, c.card)
       IN  IF found = {}
           THEN Finish(user_words, "not_found")
           ELSE \E row \in found :
                    Finish(user_words (-) One(row), "deleted")
    /\ UNCHANGED <<users, user_states, words>>

\* IsCorrect without the lowering of the text
IsCorrect_exact(text, target_word) == text = target_word

\* RecordWrong without the membership test
RecordWrong_always(wrong_answers, target_word) == Append(wrong_answers, target_word)

\* lines 636 and 722: the lowercased text is the target word
IsCorrect(text, target_word) == Lower(text) = target_word

\* lines 730-735: the target word joins the wrong answers once
RecordWrong(wrong_answers, target_word) ==
    IF target_word \in RangeOf(wrong_answers) THEN wrong_answers
    ELSE Append(wrong_answers, target_word)

\* AnswerBranch with the answer checked after every branch
AnswerBranch_always(action) == TRUE

\* lines 638, 644, 692, 714: the answer is the else of the action branches
AnswerBranch(action) == action \notin {"add_word", "add_translation", "delete_word"}

\* lines 714-736: an answer to the card
CheckAnswer(chat_id, text) ==
    /\ ReachesWordActions(chat_id, text)
    /\ AnswerBranch(users_state[chat_id].action)
    /\ LET temp_state == users_state[chat_id]
           target_word == temp_state.target_word
           state == user_states[chat_id]
       IN  IF ~TruthyText(target_word)
           THEN /\ UNCHANGED users_state
                /\ Reply(chat_id, text, "process_word_actions",
                         <<"no_current_word">>, NoCard)
           ELSE IF IsCorrect(text, target_word)
           THEN \E c \in create_card(temp_state,
                                     get_all_words(user_words, user_states, chat_id,
                                                   state.category)) :
                    /\ users_state' = [users_state EXCEPT ![chat_id] = c.ts]
                    /\ Reply(chat_id, text, "process_word_actions",
                             <<"correct">> \o c.msgs, c.card)
           ELSE /\ users_state' =
                      [users_state EXCEPT ![chat_id].wrong_answers =
                          RecordWrong(@, target_word)]
                /\ Reply(chat_id, text, "process_word_actions", <<"wrong">>, NoCard)
    /\ UNCHANGED <<users, user_states, user_words, words>>

-----------------------------------------------------------------------------
(* The bot: an empty database holding the canonical words, no temporary    *)
(* state, and one message handled at a time.                                *)

StandardWords ==
    SetToBag({Word("Cat", "kot", "animals", 1), Word("dog", "pes", "animals", 1),
              Word("fox", "lis", "animals", 1), Word("red", "krasny", "colors", 2)})

NoMessage ==
    [chat_id |-> 0, text |-> NoText, handler |-> NoText, msgs |-> <<>>, card |-> NoCard]

\* the worker pool of the bot: TeleBot(token) runs the handlers on 2 threads
Workers == {1, 2}

NoRow == UserWord(0, NoText, NoText, NoText, NoLevel, FALSE)

\* a thread that waits for a message
Idle ==
    [pc |-> "idle", chat_id |-> 0, text |-> NoText, temp_state |-> 0,
     recent_words |-> 0, wrong_answers |-> 0, words |-> EmptyBag,
     available_words |-> EmptyBag, word |-> NoRow, target_word |-> NoText,
     category |-> NoText, then |-> NoText]

\* the messages are handled one at a time: no thread is modelled
OneAtATime ==
    /\ dicts = <<>>
    /\ lists = <<>>
    /\ storage = [c \in Chats |-> 0]
    /\ workers = [w \in Workers |-> Idle]
    /\ jobs = <<>>
    /\ start = <<>>

Init ==
    /\ users = {}
    /\ user_states = [c \in Chats |-> NoState]
    /\ user_words = EmptyBag
    /\ words = StandardWords
    /\ users_state = [c \in Chats |-> EmptyState]
    /\ last = NoMessage
    /\ shown = [c \in Chats |-> <<>>]
    /\ turns = MaxTurns
    /\ OneAtATime

\* One message of one chat, taken by the handler the dispatcher routes it to
Handle(chat_id, text) ==
    \/ Start(chat_id, text)
    \/ UpdateWords(chat_id, text)
    \/ ShowStatistics(chat_id, text)
    \/ ShowHelp(chat_id, text)
    \/ SelectLevel(chat_id, text)
    \/ FilterRaises(chat_id, text)
    \/ SelectCategory(chat_id, text)
    \/ NextCard(chat_id, text)
    \/ AddWord(chat_id, text)
    \/ DeleteWord(chat_id, text)
    \/ MenuNavigation(chat_id, text)
    \/ StageWord(chat_id, text)
    \/ CommitAdd(chat_id, text)
    \/ CommitDelete(chat_id, text)
    \/ CheckAnswer(chat_id, text)

\* The conversation of one chat
Next == \E text \in Texts : Handle(1, text)

Spec == Init /\ [][Next]_vars

-----------------------------------------------------------------------------
(* The card selector on larger word lists: chat 1 is registered, has its    *)
(* level and category chosen, and owns one of the lists of CardLists; the   *)
(* messages are the ones that render cards and answer them.                 *)

Animal(w, t) == UserWord(1, w, t, "animals", 1, FALSE)

CardLists ==
    {SetToBag({Animal("cat", "kot")}),
     SetToBag({Animal("cat", "kot"), Animal("dog", "pes")}),
     SetToBag({Animal("cat", "kot"), Animal("cat", "koshka"), Animal("dog", "pes")}),
     SetToBag({Animal("cat", "kot"), Animal("dog", "pes"), Animal("fox", "lis"),
               Animal("owl", "sova")}),
     SetToBag({Animal("cat", "kot"), Animal("dog", "pes"), Animal("fox", "lis"),
               Animal("owl", "sova"), Animal("bee", "pchela")}) (+) One(Animal("dog", "pes"))}

\* the temporary state of a new process, and one in the middle of a session:
\* owl was shown and missed, then cat, dog and fox were shown
CardSessions ==
    {EmptyState,
     [EmptyState EXCEPT !.recent_words = <<"cat", "dog", "fox">>,
                        !.wrong_answers = <<"owl">>,
                        !.target_word = "fox", !.translate_word = "lis"]}

InitCard ==
    /\ users = {1}
    /\ user_states = [c \in Chats |-> IF c = 1 THEN [level |-> 1, category |-> "animals"]
                                      ELSE NoState]
    /\ user_words \in CardLists
    /\ words = StandardWords
    /\ users_state \in {[c \in Chats |-> IF c = 1 THEN ts ELSE EmptyState] :
                           ts \in CardSessions}
    /\ last = NoMessage
    /\ shown = [c \in Chats |-> <<>>]
    /\ turns = MaxCardTurns
    /\ OneAtATime

NextOfCard ==
    \E text \in {"Animals", NEXT, "Cat", "dog", "kot"} :
        \/ SelectCategory(1, text)
        \/ NextCard(1, text)
        \/ CheckAnswer(1, text)

SpecCard == InitCard /\ [][NextOfCard]_vars

-----------------------------------------------------------------------------
(* The add and the delete flow after a restart of the process: chats 1 and  *)
(* 2 are registered with level 1 and the category animals chosen, both own  *)
(* the standard words, chat 1 may own a word it added before, and no        *)
(* temporary state is left.  Chat 1 sends the messages.                     *)

EditLists ==
    LET standard == load_standard_words_for_user(
                        load_standard_words_for_user(EmptyBag, 1), 2)
    IN  {standard, standard (+) One(UserWord(1, "kitty", "kot", "animals", 1, FALSE))}

InitEdit ==
    /\ users = {1, 2}
    /\ user_states = [c \in Chats |-> [level |-> 1, category |-> "animals"]]
    /\ words = StandardWords
    /\ user_words \in EditLists
    /\ users_state = [c \in Chats |-> EmptyState]
    /\ last = NoMessage
    /\ shown = [c \in Chats |-> <<>>]
    /\ turns = MaxEditTurns
    /\ OneAtATime

NextOfEdit ==
    \E text \in {ADD_WORD, DELETE_WORD, "Kot", "kot", "dog", "krasny"} :
        \/ AddWord(1, text)
        \/ DeleteWord(1, text)
        \/ StageWord(1, text)
        \/ CommitAdd(1, text)
        \/ CommitDelete(1, text)
        \/ CheckAnswer(1, text)

SpecEdit == InitEdit /\ [][NextOfEdit]_vars

-----------------------------------------------------------------------------
(* The worker threads.  TeleBot hands every message to a pool of 2 threads, *)
(* so two handlers run at the same time, also for one chat.  Here the dicts *)
(* and lists of state_storage are objects with an identity, every statement *)
(* of a handler that reads or writes them is one step, and users_state is   *)
(* what the references of storage lead to.  The handlers are next_card and  *)
(* handle_text with the delete commit and the answer check.                 *)

MaxJobs == 2         \* messages the pool handles in one behaviour

\* {} : a dict without keys
EmptyDict == [EmptyState EXCEPT !.recent_words = 0, !.wrong_answers = 0]

ListOf(ls, id) == IF id = 0 THEN <<>> ELSE ls[id]

StateOf(ds, ls, id) ==
    IF id = 0 THEN EmptyState
    ELSE [ds[id] EXCEPT !.recent_words = ListOf(ls, @),
                        !.wrong_answers = ListOf(ls, @)]

Sessions(ds, ls, st) == [c \in Chats |-> StateOf(ds, ls, st[c])]

\* State.set with every key bound to the dict
set_every_key(st, chat_id, data) == [c \in Chats |-> data]

\* State.get, State.set and State.clear: lines 38-49
get(st, chat_id) == st[chat_id]

set(st, chat_id, data) == [st EXCEPT ![chat_id] = data]

del(st, chat_id) == [st EXCEPT ![chat_id] = 0]

At(w, pc) == workers[w].pc = pc

\* one step of thread w
Go(w, rec, ds, ls, st) ==
    /\ workers' = [workers EXCEPT ![w] = rec]
    /\ dicts' = ds
    /\ lists' = ls
    /\ storage' = st
    /\ users_state' = Sessions(ds, ls, st)
    /\ UNCHANGED <<users, user_states, words, last, shown, turns, start>>

Move(w, rec) == Go(w, rec, dicts, lists, storage)

\* the handler returns
Return(w) == Move(w, Idle)

\* a thread takes the next message: lines 554 and 762; of the threads that
\* wait, which are alike, the first one takes it
TakeMessage(w, chat_id, text) ==
    /\ At(w, "idle")
    /\ \A v \in Workers : At(v, "idle") => w <= v
    /\ Len(jobs) < MaxJobs
    /\ Route(chat_id, text) \in {"next_card", "handle_text"}
    /\ jobs' = Append(jobs, [chat_id |-> chat_id, text |-> text])
    /\ Move(w, [Idle EXCEPT !.pc = IF Route(chat_id, text) = "next_card"
                                  THEN "next_card" ELSE "handle_text",
                            !.chat_id = chat_id, !.text = text])
    /\ UNCHANGED user_words

\* next_card: lines 563-571
NextCardWords(w) ==
    /\ At(w, "next_card")
    /\ LET me == workers[w]
           state == user_states[me.chat_id]
       IN  IF ~TruthyText(state.category) THEN Return(w)
           ELSE Move(w, [me EXCEPT !.pc = "create_card",
                                   !.category = state.category,
                                   !.words = get_all_words(user_words, user_states,
                                                           me.chat_id, state.category),
                                   !.then = "return"])
    /\ UNCHANGED <<user_words, jobs>>

\* handle_text, line 775: state_storage.get(chat_id) or {}
GetTempState(w) ==
    /\ At(w, "handle_text")
    /\ LET me == workers[w]
           found == get(storage, me.chat_id)
       IN  IF found # 0
           THEN Move(w, [me EXCEPT !.pc = "action", !.temp_state = found])
           ELSE Go(w, [me EXCEPT !.pc = "action", !.temp_state = Len(dicts) + 1],
                   Append(dicts, EmptyDict), lists, storage)
    /\ UNCHANGED <<user_words, jobs>>

\* process_word_actions, lines 638, 644, 692: temp_state.get("action")
ReadAction(w) ==
    /\ At(w, "action")
    /\ LET me == workers[w]
           action == dicts[me.temp_state].action
       IN  /\ action \notin {"add_word", "add_translation"}
           /\ Move(w, [me EXCEPT !.pc = IF action = "delete_word" THEN "delete_lookup"
                                         ELSE "target"])
    /\ UNCHANGED <<user_words, jobs>>

\* lines 693-701: the lookup of the delete commit
DeleteLookup(w) ==
    /\ At(w, "delete_lookup")
    /\ LET me == workers[w]
           temp_state == dicts[me.temp_state]
           found == word_to_delete(user_words, me.chat_id, me.text,
                                   temp_state.category, temp_state.level)
       IN  IF found = {}
           THEN Move(w, [me EXCEPT !.pc = "delete_words",
                                   !.category = temp_state.category])
           ELSE \E row \in found :
                    Move(w, [me EXCEPT !.pc = "delete_row", !.word = row,
                                       !.category = temp_state.category])
    /\ UNCHANGED <<user_words, jobs>>

\* lines 703-706: db.delete and db.commit; a row that is gone already is
\* deleted without effect
DeleteRow(w) ==
    /\ At(w, "delete_row")
    /\ LET me == workers[w]
       IN  /\ user_words' = IF BagIn(me.word, user_words)
                            THEN user_words (-) One(me.word) ELSE user_words
           /\ Move(w, [me EXCEPT !.pc = "delete_words", !.word = NoRow])
    /\ UNCHANGED jobs

\* line 710
DeleteWords(w) ==
    /\ At(w, "delete_words")
    /\ LET me == workers[w]
       IN  Move(w, [me EXCEPT !.pc = "create_card",
                              !.words = get_all_words(user_words, user_states,
                                                      me.chat_id, me.category),
                              !.then = "clear"])
    /\ UNCHANGED <<user_words, jobs>>

\* State.clear, line 48: if chat_id in self.users_state
ClearTest(w) ==
    /\ At(w, "clear")
    /\ IF get(storage, workers[w].chat_id) # 0
       THEN Move(w, [workers[w] EXCEPT !.pc = "del"])
       ELSE Return(w)
    /\ UNCHANGED <<user_words, jobs>>

\* State.clear, line 49: del self.users_state[chat_id]; KeyError when the key
\* is gone, which ends the handler as well
ClearDel(w) ==
    /\ At(w, "del")
    /\ Go(w, Idle, dicts, lists, del(storage, workers[w].chat_id))
    /\ UNCHANGED <<user_words, jobs>>

\* lines 715-722: the target word and the comparison with the text
ReadTarget(w) ==
    /\ At(w, "target")
    /\ LET me == workers[w]
           target_word == dicts[me.temp_state].target_word
       IN  IF ~TruthyText(target_word) THEN Return(w)
           ELSE Move(w, [me EXCEPT !.pc = IF IsCorrect(me.text, target_word)
                                           THEN "correct" ELSE "wrong",
                                   !.target_word = target_word])
    /\ UNCHANGED <<user_words, jobs>>

\* lines 725-726
CorrectWords(w) ==
    /\ At(w, "correct")
    /\ LET me == workers[w]
           category == user_states[me.chat_id].category
       IN  Move(w, [me EXCEPT !.pc = "create_card",
                              !.category = category,
                              !.words = get_all_words(user_words, user_states,
                                                      me.chat_id, category),
                              !.then = "return"])
    /\ UNCHANGED <<user_words, jobs>>

\* temp_state.get(key, []): the list of the dict, or a new list
GetList(w, key, pc) ==
    LET me == workers[w]
        found == dicts[me.temp_state][key]
    IN  IF found # 0
        THEN Move(w, [me EXCEPT !.pc = pc, ![key] = found])
        ELSE Go(w, [me EXCEPT !.pc = pc, ![key] = Len(lists) + 1],
                dicts, Append(lists, <<>>), storage)

\* line 730
WrongGet(w) ==
    /\ At(w, "wrong")
    /\ GetList(w, "wrong_answers", "wrong_test")
    /\ UNCHANGED <<user_words, jobs>>

\* line 732: if target_word not in wrong_answers
WrongTest(w) ==
    /\ At(w, "wrong_test")
    /\ LET me == workers[w]
       IN  Move(w, [me EXCEPT !.pc = IF me.target_word \in RangeOf(lists[me.wrong_answers])
                                     THEN "wrong_store" ELSE "wrong_append"])
    /\ UNCHANGED <<user_words, jobs>>

\* line 733
WrongAppend(w) ==
    /\ At(w, "wrong_append")
    /\ LET me == workers[w]
       IN  Go(w, [me EXCEPT !.pc = "wrong_store"], dicts,
              [lists EXCEPT ![me.wrong_answers] = Append(@, me.target_word)], storage)
    /\ UNCHANGED <<user_words, jobs>>

\* line 735
WrongStore(w) ==
    /\ At(w, "wrong_store")
    /\ LET me == workers[w]
       IN  Go(w, [me EXCEPT !.pc = "wrong_set"],
              [dicts EXCEPT ![me.temp_state].wrong_answers = me.wrong_answers],
              lists, storage)
    /\ UNCHANGED <<user_words, jobs>>

\* line 736
WrongSet(w) ==
    /\ At(w, "wrong_set")
    /\ LET me == workers[w]
       IN  Go(w, Idle, dicts, lists, set(storage, me.chat_id, me.temp_state))
    /\ UNCHANGED <<user_words, jobs>>

\* after create_card: back in the handler
AfterCard(w, ds, ls, st) ==
    LET me == workers[w]
    IN  IF me.then = "clear"
        THEN Go(w, [Idle EXCEPT !.pc = "clear", !.chat_id = me.chat_id], ds, ls, st)
        ELSE Go(w, Idle, ds, ls, st)

\* create_card, lines 475-477
CardWords(w) ==
    /\ At(w, "create_card")
    /\ IF IsEmptyBag(workers[w].words)
       THEN AfterCard(w, dicts, lists, storage)
       ELSE Move(w, [workers[w] EXCEPT !.pc = "card_temp_state"])
    /\ UNCHANGED <<user_words, jobs>>

\* line 479: state_storage.get(chat_id) or {}
CardTempState(w) ==
    /\ At(w, "card_temp_state")
    /\ LET me == workers[w]
           found == get(storage, me.chat_id)
       IN  IF found # 0
           THEN Move(w, [me EXCEPT !.pc = "card_recent", !.temp_state = found])
           ELSE Go(w, [me EXCEPT !.pc = "card_recent", !.temp_state = Len(dicts) + 1],
                   Append(dicts, EmptyDict), lists, storage)
    /\ UNCHANGED <<user_words, jobs>>

\* line 482
CardRecent(w) ==
    /\ At(w, "card_recent")
    /\ GetList(w, "recent_words", "card_wrong")
    /\ UNCHANGED <<user_words, jobs>>

\* line 485: the new list is never stored, 0 stands for it
CardWrong(w) ==
    /\ At(w, "card_wrong")
    /\ LET me == workers[w]
       IN  Move(w, [me EXCEPT !.pc = "card_available",
                              !.wrong_answers = dicts[me.temp_state].wrong_answers])
    /\ UNCHANGED <<user_words, jobs>>

\* lines 489-494
CardAvailable(w) ==
    /\ At(w, "card_available")
    /\ LET me == workers[w]
       IN  Move(w, [me EXCEPT !.pc = "card_choice",
                              !.available_words =
                                  available_words(me.words, lists[me.recent_words])])
    /\ UNCHANGED <<user_words, jobs>>

\* lines 497-510
CardChoice(w) ==
    /\ At(w, "card_choice")
    /\ LET me == workers[w]
       IN  \E word \in BagToSet(weighted_words(me.available_words,
                                               ListOf(lists, me.wrong_answers))) :
               Move(w, [me EXCEPT !.pc = "card_append", !.word = word])
    /\ UNCHANGED <<user_words, jobs>>

\* line 513
CardAppend(w) ==
    /\ At(w, "card_append")
    /\ LET me == workers[w]
       IN  Go(w, [me EXCEPT !.pc = "card_pop"], dicts,
              [lists EXCEPT ![me.recent_words] = Append(@, Lower(me.word.word))],
              storage)
    /\ UNCHANGED <<user_words, jobs>>

\* lines 515-516
CardPop(w) ==
    /\ At(w, "card_pop")
    /\ LET me == workers[w]
       IN  Go(w, [me EXCEPT !.pc = "card_store_recent"], dicts,
              [lists EXCEPT ![me.recent_words] =
                  IF Len(@) > RecentLimit THEN Tail(@) ELSE @],
              storage)
    /\ UNCHANGED <<user_words, jobs>>

\* line 519
CardStoreRecent(w) ==
    /\ At(w, "card_store_recent")
    /\ LET me == workers[w]
       IN  Go(w, [me EXCEPT !.pc = "card_store_target"],
              [dicts EXCEPT ![me.temp_state].recent_words = me.recent_words],
              lists, storage)
    /\ UNCHANGED <<user_words, jobs>>

\* line 520
CardStoreTarget(w) ==
    /\ At(w, "card_store_target")
    /\ LET me == workers[w]
       IN  Go(w, [me EXCEPT !.pc = "card_store_translate"],
              [dicts EXCEPT ![me.temp_state].target_word = Lower(me.word.word)],
              lists, storage)
    /\ UNCHANGED <<user_words, jobs>>

\* line 521
CardStoreTranslate(w) ==
    /\ At(w, "card_store_translate")
    /\ LET me == workers[w]
       IN  Go(w, [me EXCEPT !.pc = "card_set"],
              [dicts EXCEPT ![me.temp_state].translate_word = Lower(me.word.translation)],
              lists, storage)
    /\ UNCHANGED <<user_words, jobs>>

\* line 522, and the return to the handler
CardSet(w) ==
    /\ At(w, "card_set")
    /\ AfterCard(w, dicts, lists, set(storage, workers[w].chat_id, workers[w].temp_state))
    /\ UNCHANGED <<user_words, jobs>>

\* a card is open after two cards and a wrong answer
Quiz ==
    [EmptyState EXCEPT !.recent_words = <<"cat", "dog">>, !.wrong_answers = <<"cat">>,
                       !.target_word = "dog", !.translate_word = "pes"]

\* the temporary states chat 1 can be in: none, a card open, and the same
\* with the delete request made; chat 2 has a card open
ThreadSessions ==
    {EmptyState, Quiz,
     [Quiz EXCEPT !.action = "delete_word", !.category = "animals", !.level = 1]}

\* the dict of chat c is object c, its lists are objects 2c - 1 and 2c
InitThreads ==
    /\ users = {1, 2}
    /\ user_states = [c \in Chats |-> [level |-> 1, category |-> "animals"]]
    /\ words = StandardWords
    /\ user_words = load_standard_words_for_user(
                        load_standard_words_for_user(EmptyBag, 1), 2)
    /\ users_state \in {[c \in Chats |-> IF c = 1 THEN ts ELSE Quiz] :
                           ts \in ThreadSessions}
    /\ dicts = [c \in 1..2 |-> [users_state[c] EXCEPT !.recent_words = 2 * c - 1,
                                                      !.wrong_answers = 2 * c]]
    /\ lists = [i \in 1..4 |-> IF i % 2 = 1 THEN users_state[(i + 1) \div 2].recent_words
                               ELSE users_state[i \div 2].wrong_answers]
    /\ storage = [c \in Chats |-> IF users_state[c] = EmptyState THEN 0 ELSE c]
    /\ workers = [w \in Workers |-> Idle]
    /\ jobs = <<>>
    /\ start = [users_state |-> users_state, user_words |-> user_words]
    /\ last = NoMessage
    /\ shown = [c \in Chats |-> <<>>]
    /\ turns = 0

ThreadTexts == {NEXT, "dog", "pes"}

NextOfThreads ==
    \E w \in Workers :
        \/ \E chat_id \in Chats, text \in ThreadTexts : TakeMessage(w, chat_id, text)
        \/ NextCardWords(w)
        \/ GetTempState(w)
        \/ ReadAction(w)
        \/ DeleteLookup(w)
        \/ DeleteRow(w)
        \/ DeleteWords(w)
        \/ ClearTest(w)
        \/ ClearDel(w)
        \/ ReadTarget(w)
        \/ CorrectWords(w)
        \/ WrongGet(w)
        \/ WrongTest(w)
        \/ WrongAppend(w)
        \/ WrongStore(w)
        \/ WrongSet(w)
        \/ CardWords(w)
        \/ CardTempState(w)
        \/ CardRecent(w)
        \/ CardWrong(w)
        \/ CardAvailable(w)
        \/ CardChoice(w)
        \/ CardAppend(w)
        \/ CardPop(w)
        \/ CardStoreRecent(w)
        \/ CardStoreTarget(w)
        \/ CardStoreTranslate(w)
        \/ CardSet(w)

SpecThreads == InitThreads /\ [][NextOfThreads]_vars

-----------------------------------------------------------------------------
(* Properties *)

Rendered == last.card # NoCard

Card == last.card

LowerWords(ws) == {Lower(r.word) : r \in BagToSet(ws)}

Min(a, b) == IF a < b THEN a ELSE b

NoDuplicates(s) == \A i, j \in DOMAIN s : s[i] = s[j] => i = j

\* the turn ended in the add or the delete commit, which clears the state
CommitTurn ==
    /\ last.handler = "process_word_actions"
    /\ Head(last.msgs) \in {"added", "already_exists", "deleted", "not_found"}

\* C1: the word of a rendered card is not one of the recent words create_card
\* found in the temporary state, unless the word of every candidate is one
C1_RecentWordNotChosen ==
    Rendered =>
        \/ Lower(Card.word) \notin RangeOf(Card.recent)
        \/ LowerWords(Card.words) \subseteq RangeOf(Card.recent)

\* a card rendered from candidates of which some were recent and some not
C1_Witness ==
    /\ Rendered
    /\ LowerWords(Card.words) \cap RangeOf(Card.recent) # {}
    /\ LowerWords(Card.words) \ RangeOf(Card.recent) # {}

\* C3: the pool holds each candidate that passed the recency filter (all of
\* them when none passed) once for each of its rows, three times when its
\* word is a wrong answer, holds nothing else, and the card's word is of it
C3_PoolWeights ==
    Rendered =>
        LET AllRecent == LowerWords(Card.words) \subseteq RangeOf(Card.recent)
            Survives(r) == AllRecent \/ Lower(r.word) \notin RangeOf(Card.recent)
            Weight(r) == IF Lower(r.word) \in RangeOf(Card.wrong) THEN 3 ELSE 1
        IN  /\ \A r \in BagToSet(Card.words) \cup BagToSet(Card.pool) :
                   CopiesIn(r, Card.pool) =
                       IF Survives(r) THEN Weight(r) * CopiesIn(r, Card.words) ELSE 0
            /\ \E r \in BagToSet(Card.pool) :
                   r.word = Card.word /\ r.translation = Card.translate

\* a pool with a word of weight 3, a word of weight 1 and a candidate left out
C3_Witness ==
    /\ Rendered
    /\ \E r \in BagToSet(Card.words) : CopiesIn(r, Card.pool) = 3
    /\ \E r \in BagToSet(Card.words) : CopiesIn(r, Card.pool) = 1
    /\ \E r \in BagToSet(Card.words) : CopiesIn(r, Card.pool) = 0

\* C4: the options of a rendered card hold the card's word once, no word
\* twice, and as many words as there are distinct candidate words, at most 4
C4_OptionSet ==
    Rendered =>
        /\ CopiesIn(Lower(Card.word), Card.options) = 1
        /\ \A o \in BagToSet(Card.options) : CopiesIn(o, Card.options) = 1
        /\ \A o1, o2 \in BagToSet(Card.options) : Lower(o1) = Lower(o2) => o1 = o2
        /\ BagCardinality(Card.options) = Min(4, Cardinality(LowerWords(Card.words)))

\* a card whose candidates hold more than four distinct words
C4_Witness == Rendered /\ Cardinality(LowerWords(Card.words)) > 4

\* C5: recent_words never holds more than 3 words; a render that the handler
\* leaves in the temporary state put the card's lowercased word last and kept
\* the words before it, all but the oldest when there were 3 already
C5_RecentQueue ==
    /\ \A c \in Chats : Len(users_state[c].recent_words) <= 3
    /\ (Rendered /\ ~CommitTurn) =>
           LET before == Card.recent
               after == users_state[last.chat_id].recent_words
               dropped == Len(before) + 1 - Len(after)
           IN  /\ Len(after) = Min(3, Len(before) + 1)
               /\ after[Len(after)] = Lower(Card.word)
               /\ \A i \in 1..(Len(after) - 1) : after[i] = before[i + dropped]

\* a render that evicted the oldest of three recent words
C5_Witness == Rendered /\ ~CommitTurn /\ Len(Card.recent) = 3

\* C6: after a turn that rendered a card, target_word is that card's word
C6_TargetSetAfterRender ==
    Rendered => users_state[last.chat_id].target_word = Lower(Card.word)

\* the words of the cards rendered to a chat before this turn
ShownWords(c) == {shown[c][i].word : i \in DOMAIN shown[c]}

\* C2: a card rendered from the candidate list its up to 3 predecessors were
\* rendered from does not show a word one of them showed, when a candidate
\* word is left that none of them showed
C2_NoRepeatOfLastCards ==
    [][LET c == last'.chat_id
       IN  (/\ last'.card # NoCard
            /\ \A i \in DOMAIN shown[c] : shown[c][i].words = last'.card.words
            /\ LowerWords(last'.card.words) \ ShownWords(c) # {})
           => Lower(last'.card.word) \notin ShownWords(c)]_vars

\* the message of this step reached process_word_actions as an answer: no
\* action is pending and a target word is set
AnswerTo(c) ==
    /\ last'.chat_id = c
    /\ last'.handler = "process_word_actions"
    /\ users_state[c].action = NoText
    /\ users_state[c].target_word # NoText

\* the temporary state differs at most in the fields create_card writes
OnlyCardFields(c) ==
    users_state'[c] = [users_state[c] EXCEPT
                          !.recent_words = users_state'[c].recent_words,
                          !.target_word = users_state'[c].target_word,
                          !.translate_word = users_state'[c].translate_word]

\* a card was rendered from the chat's rows of the persisted category and level
NewCardRendered(c) ==
    /\ last'.card # NoCard
    /\ last'.card.words =
           get_all_words(user_words, user_states, c, user_states[c].category)
    /\ users_state'[c].target_word = Lower(last'.card.word)
    /\ users_state'[c].translate_word = Lower(last'.card.translate)

\* C7 as stated: an answer equal to target_word ignoring case is reported
\* correct, leaves wrong_answers alone and renders a new card
C7_CorrectRendersCard ==
    [][\A c \in Chats :
          (AnswerTo(c) /\ Lower(last'.text) = users_state[c].target_word) =>
              /\ Head(last'.msgs) = "correct"
              /\ users_state'[c].wrong_answers = users_state[c].wrong_answers
              /\ OnlyCardFields(c)
              /\ UNCHANGED <<users, user_states, user_words, words>>
              /\ NewCardRendered(c)]_vars

\* C7 amended: the new card is rendered when the chat owns a word of the
\* persisted category and level; when it owns none the notice is sent and the
\* temporary state stays as it was
C7_CorrectRendersCardIfWords ==
    [][\A c \in Chats :
          (AnswerTo(c) /\ Lower(last'.text) = users_state[c].target_word) =>
              /\ Head(last'.msgs) = "correct"
              /\ users_state'[c].wrong_answers = users_state[c].wrong_answers
              /\ OnlyCardFields(c)
              /\ UNCHANGED <<users, user_states, user_words, words>>
              /\ IF \E r \in BagToSet(user_words) :
                        /\ r.user_id = c
                        /\ r.category = user_states[c].category
                        /\ r.level = user_states[c].level
                 THEN NewCardRendered(c)
                 ELSE /\ last'.card = NoCard
                      /\ last'.msgs = <<"correct", "no_words_available">>
                      /\ users_state'[c] = users_state[c]]_vars

\* a correct answer typed with a capital letter, followed by a new card
C7_Witness ==
    /\ last.text = "Cat"
    /\ last.msgs = <<"correct", "card">>
    /\ users_state[last.chat_id].target_word = Lower(Card.word)

\* C8: an answer that differs from target_word puts target_word among the
\* wrong answers, once, after the ones that were there, and changes nothing
\* else: not the card, the recent words, the pending action or the tables
C8_WrongAnswer ==
    [][\A c \in Chats :
          (AnswerTo(c) /\ Lower(last'.text) # users_state[c].target_word) =>
              LET old == users_state[c].wrong_answers
                  new == users_state'[c].wrong_answers
              IN  /\ last'.msgs = <<"wrong">>
                  /\ last'.card = NoCard
                  /\ RangeOf(new) = RangeOf(old) \cup {users_state[c].target_word}
                  /\ NoDuplicates(new)
                  /\ SubSeq(new, 1, Len(old)) = old
                  /\ users_state'[c] = [users_state[c] EXCEPT !.wrong_answers = new]
                  /\ UNCHANGED <<users, user_states, user_words, words>>]_vars

\* a wrong answer to the open card, whose word is now among the wrong answers
C8_Witness ==
    /\ last.msgs = <<"wrong">>
    /\ users_state[last.chat_id].target_word
           \in RangeOf(users_state[last.chat_id].wrong_answers)
    /\ users_state[last.chat_id].action = NoText

\* C9: while the action is add_word, every text other than /start is kept,
\* lowercased, as the Russian word and the action becomes add_translation
C9_EveryTextStaged ==
    [][\A c \in Chats :
          (/\ users_state[c].action = "add_word"
           /\ last'.chat_id = c
           /\ last'.text \in Texts \ {START})
          => /\ users_state'[c].russian = Lower(last'.text)
             /\ users_state'[c].action = "add_translation"]_vars

\* C10: a text that reaches process_word_actions while the action is
\* add_translation leaves no action pending
C10_TranslationEndsAction ==
    [][\A c \in Chats :
          (/\ users_state[c].action = "add_translation"
           /\ last'.chat_id = c
           /\ last'.handler = "process_word_actions")
          => users_state'[c].action = NoText]_vars

\* the rows of a chat with the word, translation, category and level given
Entries(uw, c, w, t, cat, l) ==
    BagFilter(uw, LAMBDA r : /\ r.user_id = c
                             /\ r.word = w
                             /\ r.translation = t
                             /\ r.category = cat
                             /\ r.level = l)

\* the first reply to the last message
FirstReply == IF last.msgs = <<>> THEN NoText ELSE Head(last.msgs)

\* the message of this step reached process_word_actions for chat c
Interpreted(c) == last'.chat_id = c /\ last'.handler = "process_word_actions"

\* C11: a text e that reaches process_word_actions while the action is
\* add_translation, when the chat owns no row (lower(e), staged word, staged
\* category, staged level), inserts one such row of the chat and nothing
\* else, leaves no action pending and renders a card
C11_AddInsertsOneEntry ==
    [][\A c \in Chats :
          LET ts == users_state[c]
              Mine(uw) == Entries(uw, c, Lower(last'.text), ts.russian,
                                  ts.category, ts.level)
          IN  (ts.action = "add_translation" /\ Interpreted(c)
               /\ IsEmptyBag(Mine(user_words)))
              => /\ \E r \in BagToSet(Mine(user_words')) :
                        user_words' = user_words (+) One(r)
                 /\ users_state'[c].action = NoText
                 /\ last'.card # NoCard]_vars

\* C12: a row that a turn adds to user_words has is_custom TRUE when the add
\* flow inserted it and FALSE when /start or the refresh copied it
C12_CustomFlagTellsOrigin ==
    [][\A r \in BagToSet(user_words') :
          CopiesIn(r, user_words') > CopiesIn(r, user_words) =>
              r.is_custom = (last'.handler = "process_word_actions")]_vars

\* C16: the add and the delete request set the action and stage category and
\* level when the persisted state holds a category and a level >= 1, and
\* leave the temporary state as it was otherwise
C16_RequestNeedsCategoryAndLevel ==
    [][\A c \in Chats :
          (last'.chat_id = c /\ last'.handler \in {"add_word", "delete_word"}) =>
              IF TruthyText(user_states[c].category) /\ user_states[c].level >= 1
              THEN users_state'[c] =
                       [users_state[c] EXCEPT !.action = last'.handler,
                                              !.category = Lower(user_states[c].category),
                                              !.level = user_states[c].level]
              ELSE users_state'[c] = users_state[c]]_vars

\* the turn asked for a card and found no candidate
NoCandidates == \E i \in DOMAIN last'.msgs :
                    last'.msgs[i] \in {"no_words_available", "category_empty"}

\* C17: a turn that asks for a card and finds no candidate changes neither
\* recent_words, wrong_answers nor target_word
C17_NoCandidatesNoMutation ==
    [][\A c \in Chats :
          (last'.chat_id = c /\ NoCandidates) =>
              /\ users_state'[c].recent_words = users_state[c].recent_words
              /\ users_state'[c].wrong_answers = users_state[c].wrong_answers
              /\ users_state'[c].target_word = users_state[c].target_word]_vars

\* C18: a text that reaches process_word_actions with no action pending and
\* no target word gets the error message alone: no card, no change of the
\* temporary state or of the tables
C18_NoTargetIsAnError ==
    [][\A c \in Chats :
          (/\ Interpreted(c)
           /\ users_state[c].action = NoText
           /\ users_state[c].target_word = NoText)
          => /\ last'.msgs = <<"no_current_word">>
             /\ last'.card = NoCard
             /\ users_state' = users_state
             /\ UNCHANGED <<users, user_states, user_words, words>>]_vars

\* a text handled with no action pending and no card open
C18_Witness ==
    /\ last.msgs = <<"no_current_word">>
    /\ users_state[last.chat_id] = EmptyState

\* C13: an add commit with a staged level >= 1 leaves exactly one row
\* (chat, lower(text), staged word, staged category, staged level); when the
\* chat owned such a row before, as on the second run of the flow with the
\* same texts, the commit reports it and leaves user_words as it was
C13_AddTwiceStoresOnce ==
    [][\A c \in Chats :
          LET ts == users_state[c]
              Mine(uw) == Entries(uw, c, Lower(last'.text), ts.russian,
                                  ts.category, ts.level)
          IN  (ts.action = "add_translation" /\ Interpreted(c) /\ ts.level >= 1)
              => /\ BagCardinality(Mine(user_words')) = 1
                 /\ ~IsEmptyBag(Mine(user_words)) =>
                        /\ user_words' = user_words
                        /\ Head(last'.msgs) = "already_exists"]_vars

\* the second run of the add flow with the texts kot and dog: the row the
\* first run inserted, which is not a standard word, is found
C13_Witness ==
    /\ FirstReply = "already_exists"
    /\ last.text = "dog"
    /\ BagCardinality(Entries(user_words, 1, "dog", "kot", "animals", 1)) = 1

\* the chat's rows with the translation lower(text) under the staged
\* category and level
Deletable(c) ==
    BagFilter(user_words, LAMBDA r : /\ r.user_id = c
                                     /\ r.translation = Lower(last'.text)
                                     /\ r.category = users_state[c].category
                                     /\ r.level = users_state[c].level)

DeleteTurn(c) == users_state[c].action = "delete_word" /\ Interpreted(c)

\* C14: a delete commit whose text is the translation of rows of the chat
\* under the staged category and level removes one of these rows and changes
\* nothing else of user_words and words
C14_DeleteRemovesOne ==
    [][\A c \in Chats :
          (DeleteTurn(c) /\ ~IsEmptyBag(Deletable(c))) =>
              /\ \E r \in BagToSet(Deletable(c)) : user_words' = user_words (-) One(r)
              /\ words' = words]_vars

\* kot was deleted while the chat owned two words with this translation: one
\* of them is left, and so are the rows of chat 2 and the chat's row of the
\* other category
C14_Witness ==
    /\ FirstReply = "deleted"
    /\ Lower(last.text) = "kot"
    /\ \E r \in BagToSet(user_words) : r.user_id = 1 /\ r.translation = "kot"
    /\ \E r \in BagToSet(user_words) : r.user_id = 2 /\ r.translation = "kot"
    /\ \E r \in BagToSet(user_words) : r.user_id = 1 /\ r.category = "colors"

\* C15: a delete commit whose text is the translation of no row of the chat
\* under the staged category and level reports that and leaves user_words
\* and words as they were
C15_DeleteNotFound ==
    [][\A c \in Chats :
          (DeleteTurn(c) /\ IsEmptyBag(Deletable(c))) =>
              /\ Head(last'.msgs) = "not_found"
              /\ user_words' = user_words
              /\ words' = words]_vars

\* krasny was not found under animals, level 1; the chat owns it under colors
C15_Witness ==
    /\ FirstReply = "not_found"
    /\ last.text = "krasny"
    /\ \E r \in BagToSet(user_words) : r.user_id = 1 /\ r.translation = "krasny"

\* the objects a chat's entry of storage leads to
DictsOf(c) == IF storage[c] = 0 THEN {} ELSE {storage[c]}

ListsOf(c) ==
    UNION {{dicts[d].recent_words, dicts[d].wrong_answers} \ {0} : d \in DictsOf(c)}

\* no dict and no list is reached from the entries of two chats, and no
\* thread that handles a message of one chat holds an object of another
NoSharing ==
    \A a, b \in Chats :
        a # b =>
            /\ DictsOf(a) \cap DictsOf(b) = {}
            /\ ListsOf(a) \cap ListsOf(b) = {}
            /\ \A w \in Workers :
                   workers[w].chat_id = a =>
                       /\ workers[w].temp_state \notin DictsOf(b)
                       /\ workers[w].recent_words \notin ListsOf(b)
                       /\ workers[w].wrong_answers \notin ListsOf(b)

\* the chat whose message thread w handles in this step
Acting(w) == IF workers[w].chat_id # 0 THEN workers[w].chat_id ELSE workers'[w].chat_id

\* the step leaves the temporary state of chat c and its objects alone
Untouched(c) ==
    /\ users_state'[c] = users_state[c]
    /\ storage'[c] = storage[c]
    /\ \A d \in DictsOf(c) : dicts'[d] = dicts[d]
    /\ \A l \in ListsOf(c) : lists'[l] = lists[l]

\* C19: a step of a thread that handles a message of one chat leaves the
\* temporary state of every other chat as it was, whatever the other thread
\* is doing, and no dict or list belongs to the states of two chats
C19_SessionsApart ==
    [][/\ \A w \in Workers :
              workers'[w] # workers[w] => \A c \in Chats \ {Acting(w)} : Untouched(c)
       /\ NoSharing']_vars

\* the two threads are at work for different chats and both temporary
\* states have been written
C19_Witness ==
    /\ workers[1].chat_id = 2
    /\ workers[2].chat_id = 1
    /\ \A c \in Chats : users_state[c] # start.users_state[c]

\* one message handled alone, from the temporary state and the rows in o:
\* every result next_card and handle_text can give
Turn(o, chat_id, text) ==
    LET ts == o.ts
        category == user_states[chat_id].category
        Shown(ws) == {[ts |-> c.ts, uw |-> o.uw] : c \in create_card(ts, ws)}
    IN  IF Route(chat_id, text) = "next_card"
        THEN IF ~TruthyText(category) THEN {o}
             ELSE Shown(get_all_words(o.uw, user_states, chat_id, category))
        ELSE IF ts.action = "delete_word"
        THEN LET found == word_to_delete(o.uw, chat_id, text, ts.category, ts.level)
             IN  IF found = {} THEN {[ts |-> EmptyState, uw |-> o.uw]}
                 ELSE {[ts |-> EmptyState, uw |-> o.uw (-) One(r)] : r \in found}
        ELSE IF ~TruthyText(ts.target_word) THEN {o}
        ELSE IF IsCorrect(text, ts.target_word)
        THEN Shown(get_all_words(o.uw, user_states, chat_id, category))
        ELSE {[o EXCEPT !.ts.wrong_answers = RecordWrong(@, ts.target_word)]}

\* two messages of a chat handled one after the other
Serial(chat_id, first, second) ==
    UNION {Turn(o, chat_id, second) :
               o \in Turn([ts |-> start.users_state[chat_id], uw |-> start.user_words],
                          chat_id, first)}

\* C20: when the threads have handled two messages of one chat, the chat's
\* temporary state (and its rows) are what handling the two messages one
\* after the other, in one of the two orders, can give
C20_Serializable ==
    (/\ Len(jobs) = 2
     /\ \A w \in Workers : At(w, "idle")
     /\ jobs[1].chat_id = jobs[2].chat_id)
    => LET c == jobs[1].chat_id
       IN  [ts |-> users_state[c], uw |-> user_words]
               \in Serial(c, jobs[1].text, jobs[2].text)
                   \cup Serial(c, jobs[2].text, jobs[1].text)

\* the rows of uw that agree with r in owner, word, translation, category
\* and level
SameKey(uw, r) == Entries(uw, r.user_id, r.word, r.translation, r.category, r.level)

\* C21: no chat owns two rows with the same word, translation, category and
\* level (the standard words of the model differ after lowercasing)
C21_NoDuplicateRows ==
    \A r \in BagToSet(user_words) : BagCardinality(SameKey(user_words, r)) = 1

\* the refresh ran while the chat owned a word it had added and the
\* standard words
C21_Witness ==
    /\ last.handler = "update_words"
    /\ last.msgs = <<"db_updated">>
    /\ \E r \in BagToSet(user_words) :
           r.user_id = 1 /\ \A w \in BagToSet(words) : Lowered(1, w) # r
    /\ \A w \in BagToSet(words) : BagIn(Lowered(1, w), user_words)

\* the number of standard words that are r after lowercasing
Standard(r) ==
    BagCardinality(BagFilter(words, LAMBDA w : /\ Lower(w.word) = r.word
                                               /\ Lower(w.translation) = r.translation
                                               /\ Lower(w.category) = r.category
                                               /\ w.level = r.level))

CardTurn(c) ==
    /\ last'.chat_id = c
    /\ last'.card # NoCard
    /\ \/ last'.handler \in {"select_category", "next_card"}
       \/ last'.handler = "process_word_actions" /\ Head(last'.msgs) = "correct"

\* C23: a card rendered on selecting a category, on the next button or after
\* a correct answer changes only recent_words, target_word and translate_word
\* of the temporary state and leaves user_words and words as they were
C23_RenderWritesCardFields ==
    [][\A c \in Chats :
          CardTurn(c) => /\ OnlyCardFields(c)
                         /\ \A d \in Chats \ {c} : users_state'[d] = users_state[d]
                         /\ UNCHANGED <<user_words, words>>]_vars

\* the next button rendered a card while an add request was pending and a
\* wrong answer was on record
C23_Witness ==
    /\ last.handler = "next_card"
    /\ Rendered
    /\ users_state[1].action = "add_word"
    /\ users_state[1].wrong_answers # <<>>
    /\ users_state[1].target_word = Lower(Card.word)

\* C25: a text that reaches process_word_actions while an action is pending
\* gets no verdict and adds nothing to wrong_answers
C25_PendingActionNoVerdict ==
    [][\A c \in Chats :
          (Interpreted(c)
               /\ users_state[c].action \in {"add_word", "add_translation", "delete_word"}) =>
              /\ \A i \in DOMAIN last'.msgs :
                     last'.msgs[i] \notin {"correct", "wrong", "no_current_word"}
              /\ RangeOf(users_state'[c].wrong_answers)
                     \subseteq RangeOf(users_state[c].wrong_answers)]_vars

\* the target word of the card was sent as the Russian word of the add flow
C25_Witness ==
    /\ last.handler = "process_word_actions"
    /\ last.msgs = <<"enter_translation">>
    /\ users_state[1].action = "add_translation"
    /\ users_state[1].target_word # NoText
    /\ Lower(last.text) = users_state[1].target_word

\* C26: a temporary state with a target word has it as the newest of its
\* recent words
C26_TargetIsNewestRecent ==
    \A c \in Chats :
        users_state[c].target_word # NoText =>
            /\ users_state[c].recent_words # <<>>
            /\ users_state[c].recent_words[Len(users_state[c].recent_words)] =
                   users_state[c].target_word

\* the next button rendered a card that filled the queue of recent words
C26_Witness ==
    /\ last.handler = "next_card"
    /\ Rendered
    /\ users_state[1].target_word = Lower(Card.word)
    /\ Len(users_state[1].recent_words) = RecentLimit

\* C24: no turn removes a word from the wrong answers of a chat
C24_WrongAnswersOnlyGrow ==
    [][\A c \in Chats :
          RangeOf(users_state[c].wrong_answers)
              \subseteq RangeOf(users_state'[c].wrong_answers)]_vars

\* C27: a message other than /start and the help button from a chat with no
\* User row is ignored or answered that the user is not found, changes
\* nothing and raises nothing
C27_UnregisteredChatHandled ==
    [][\A c \in Chats :
          (last'.chat_id = c /\ c \notin users /\ last'.text \notin {START, HELP}) =>
              /\ last'.handler # "filter_raises"
              /\ last'.msgs \in {<<>>, <<"user_not_found">>}
              /\ UNCHANGED <<users, user_states, user_words, words, users_state>>]_vars

====
